---- MODULE Spec2Model ----
(***************************************************************************)
(* A model of gotirc's Client (client.go): the connection lifecycle        *)
(* (Connect / doConnect / doPostConnect / authenticate / Disconnect), the  *)
(* outbound path (Say / Whisper / Join / Part / send), the rate-limited    *)
(* send loop, the receive loop and the dispatcher.                         *)
(*                                                                         *)
(* Strings are sequences of one-character strings, so that formatting,     *)
(* prefixing and parsing are computed and not assumed.                     *)
(***************************************************************************)
EXTENDS Integers, Sequences, FiniteSets, TLC

(***************************************************************************)
(* Bounds of the model.                                                    *)
(***************************************************************************)
\* dials (net.Dial calls that succeed) in one behaviour; transports, shutdown
\* signals and outbound queues are numbered by the dial that created them
MaxDials == 2
\* lines alive in the outbound queues plus lines written to the transports by
\* the send loops, in the lifecycle specification
MaxLines == 1
\* listener invocations in one behaviour
MaxFired == 3
\* listeners registered in one behaviour
MaxListeners == 2
\* lines in the queue plus lines written, in the rate-limit specification
MaxRateLines == 21
\* seconds the clock of the rate-limit specification advances
MaxClock == 3

(***************************************************************************)
(* Strings.                                                                *)
(***************************************************************************)
Min(a, b) == IF a < b THEN a ELSE b

\* strings.HasPrefix
HasPrefix(s, p) == Len(s) >= Len(p) /\ SubSeq(s, 1, Len(p)) = p

\* strings.HasSuffix
HasSuffix(s, p) == Len(s) >= Len(p) /\ SubSeq(s, Len(s) - Len(p) + 1, Len(s)) = p

\* s[i:] of Go, i counted from 0
From(s, i) == SubSeq(s, i + 1, Len(s))

\* the first position of character ch in s at or after position i, 0 if none
RECURSIVE IndexFrom(_, _, _)
IndexFrom(s, ch, i) ==
    IF i > Len(s) THEN 0
    ELSE IF s[i] = ch THEN i
    ELSE IndexFrom(s, ch, i + 1)

CRLF == <<"\r", "\n">>

FlagChars == {"#", "0", "+", "-", " "}
DigitChars == {"0", "1", "2", "3", "4", "5", "6", "7", "8", "9"}

\* the position of the first character at or after i that is not in set
RECURSIVE SkipChars(_, _, _)
SkipChars(f, i, set) ==
    IF i <= Len(f) /\ f[i] \in set THEN SkipChars(f, i + 1, set) ELSE i

\* fmt: what a verb prints for a string operand
FmtVerb(verb, arg) ==
    IF verb \in {"s", "v"} THEN arg
    ELSE <<"%", "!", verb, "(", "s", "t", "r", "i", "n", "g", "=">> \o arg \o <<")">>

\* fmt.Sprintf for string operands: flags, width and precision are skipped,
\* "%%" prints a percent sign, a verb without an operand prints
\* %!verb(MISSING), a percent sign that ends the format prints %!(NOVERB)
RECURSIVE doPrintf(_, _, _)
doPrintf(f, i, args) ==
    IF i > Len(f) THEN <<>>
    ELSE IF f[i] # "%" THEN <<f[i]>> \o doPrintf(f, i + 1, args)
    ELSE LET a == SkipChars(f, i + 1, FlagChars)
             b == SkipChars(f, a, DigitChars)
             v == IF b <= Len(f) /\ f[b] = "."
                  THEN SkipChars(f, b + 1, DigitChars) ELSE b
         IN  IF v > Len(f) THEN <<"%", "!", "(", "N", "O", "V", "E", "R", "B", ")">>
             ELSE IF f[v] = "%" THEN <<"%">> \o doPrintf(f, v + 1, args)
             ELSE IF args = <<>>
                  THEN <<"%", "!", f[v], "(", "M", "I", "S", "S", "I", "N", "G", ")">>
                       \o doPrintf(f, v + 1, args)
             ELSE FmtVerb(f[v], Head(args)) \o doPrintf(f, v + 1, Tail(args))

Sprintf(format, args) == doPrintf(format, 1, args)

(***************************************************************************)
(* The message parser (NewMessage): a raw line to a structured message,    *)
(* [@tags ][:prefix ]COMMAND params... [:trailing].                        *)
(***************************************************************************)
\* s without the line delimiter characters at its end
RECURSIVE TrimEOL(_)
TrimEOL(s) ==
    IF s # <<>> /\ s[Len(s)] \in {"\r", "\n"} THEN TrimEOL(SubSeq(s, 1, Len(s) - 1)) ELSE s

\* the pieces of s between occurrences of the separator character
RECURSIVE Split(_, _)
Split(s, sep) ==
    LET k == IndexFrom(s, sep, 1)
    IN  IF k = 0 THEN <<s>> ELSE <<SubSeq(s, 1, k - 1)>> \o Split(From(s, k), sep)

\* key=value pieces to a map from key to value
RECURSIVE TagMap(_)
TagMap(pieces) ==
    IF pieces = <<>> THEN <<>>
    ELSE LET p == Head(pieces)
             k == IndexFrom(p, "=", 1)
             key == IF k = 0 THEN p ELSE SubSeq(p, 1, k - 1)
             val == IF k = 0 THEN <<>> ELSE From(p, k)
             rest == TagMap(Tail(pieces))
         IN  [x \in (DOMAIN rest) \cup {key} |-> IF x = key THEN val ELSE rest[x]]

\* the parameters of a message: words, then everything after " :" as one
RECURSIVE ParseParams(_)
ParseParams(s) ==
    IF s = <<>> THEN <<>>
    ELSE IF s[1] = ":" THEN <<From(s, 1)>>
    ELSE LET k == IndexFrom(s, " ", 1)
         IN  IF k = 0 THEN <<s>> ELSE <<SubSeq(s, 1, k - 1)>> \o ParseParams(From(s, k))

NewMessage(line) ==
    LET s0 == TrimEOL(line)
        hasTags == s0 # <<>> /\ s0[1] = "@"
        t == IF hasTags THEN IndexFrom(s0, " ", 1) ELSE 0
        s1 == IF hasTags THEN (IF t = 0 THEN <<>> ELSE From(s0, t)) ELSE s0
        tagstr == IF hasTags THEN SubSeq(s0, 2, (IF t = 0 THEN Len(s0) ELSE t - 1)) ELSE <<>>
        hasPrefix == s1 # <<>> /\ s1[1] = ":"
        q == IF hasPrefix THEN IndexFrom(s1, " ", 1) ELSE 0
        prefix == IF hasPrefix THEN SubSeq(s1, 2, (IF q = 0 THEN Len(s1) ELSE q - 1)) ELSE <<>>
        s2 == IF hasPrefix THEN (IF q = 0 THEN <<>> ELSE From(s1, q)) ELSE s1
        bang == IndexFrom(prefix, "!", 1)
        words == ParseParams(s2)
    IN  [Command |-> IF words = <<>> THEN <<>> ELSE Head(words),
         Params |-> IF words = <<>> THEN <<>> ELSE Tail(words),
         Tags |-> IF tagstr = <<>> THEN <<>> ELSE TagMap(Split(tagstr, ";")),
         Nick |-> IF bang = 0 THEN prefix ELSE SubSeq(prefix, 1, bang - 1)]

(***************************************************************************)
(* Program constants and the inputs of the model.                          *)
(***************************************************************************)
\* const sendBufferSize
sendBufferSize == 512
\* Connect passes maxMessages = 19 and perSeconds = 30 to doPostConnect
maxMessages == 19
perSeconds == 30
\* time.Second in units of the model's clock: the clock counts milliseconds
\* (time.Duration counts nanoseconds; the integers of the model are 32 bits wide)
Second == 1000
\* the token count is kept in units of 1/(perSeconds * Second) of a token, in
\* which the refill of one clock unit is exactly maxMessages
OneToken == perSeconds * Second
FullBucket == maxMessages * OneToken

\* var caps
caps == <<<<"m", "e", "m", "b", "e", "r", "s", "h", "i", "p">>, <<"c", "o", "m", "m", "a", "n", "d", "s">>, <<"t", "a", "g", "s">>>>

\* the goroutines that call Connect
Callers == {1, 2}
\* transports, shutdown signals and outbound queues, numbered by dial
Sessions == 1..MaxDials

\* Options.Channels, and the nick and pass given to Connect
Channels == <<<<"c">>>>
Nick == <<"n">>
Pass == <<"p">>

\* the 12 event kinds of the callback registry
Kinds == {"action", "chat", "resub", "notice", "userstate", "roomstate",
          "subgift", "subscription", "cheer", "join", "part", "whisper"}

\* lines the server sends
Line001 == <<":", "t", " ", "0", "0", "1", " ", "n", " ", ":", "h", "i", "\r", "\n">>
LinePing == <<"P", "I", "N", "G", " ", ":", "a", "%", "\r", "\n">>
LineNotice == <<"N", "O", "T", "I", "C", "E", " ", "*", " ", ":", "x", "\r", "\n">>
InLines == {Line001, LinePing, LineNotice}

\* errors
ErrAlreadyConnected == <<"A", "l", "r", "e", "a", "d", "y", " ", "c", "o", "n", "n", "e", "c", "t", "e", "d">>
ErrDial == <<"d", "i", "a", "l", " ", "e", "r", "r", "o", "r">>
ErrWrite == <<"w", "r", "i", "t", "e", " ", "e", "r", "r", "o", "r">>
ErrRead == <<"r", "e", "a", "d", " ", "e", "r", "r", "o", "r">>
NoError == <<>>

VARIABLES
    connected,   \* Client.connected
    conn,        \* Client.conn: a transport, 0 for nil
    reader,      \* Client.reader: the transport the bufio.Reader wraps, 0 for nil
    writer,      \* Client.writer: the transport the bufio.Writer wraps, 0 for nil
    doneChan,    \* Client.doneChan: a shutdown signal, 0 for nil
    sendQueue,   \* Client.sendQueue: an outbound queue, 0 for nil
    transport,   \* each net.Conn: "none" (not dialed), "open", "closed"
    done,        \* each chan struct{}: "none" (not made), "open", "closed"
    qstate,      \* each chan string: "none" (not made), "open", "closed"
    queue,       \* each chan string: the lines buffered in it
    caller,      \* each goroutine calling Connect: its position and locals
    sender,      \* each startSendLoop goroutine: its position and locals
    producer,    \* the goroutine calling Say, Whisper, Join and Part
    callbacks,   \* the 12 listener lists
    fired,       \* the listener invocations so far, <<kind, listener, arguments>>
    clock,       \* time.Now()
    panicked,    \* the run-time panic that ended the process, "" if none
    hist,        \* history of each goroutine's current Connect call
    discSeen,    \* callers since whose dial a Disconnect has cleared the flag
    redial       \* callers since whose Receiver's Disconnect a dial has succeeded

clientVars == <<connected, conn, reader, writer, doneChan, sendQueue>>
objVars == <<transport, done, qstate, queue>>
regVars == <<callbacks, fired>>
ghostVars == <<hist, discSeen, redial>>
vars == <<connected, conn, reader, writer, doneChan, sendQueue, transport, done,
          qstate, queue, caller, sender, producer, callbacks, fired, clock,
          panicked, hist, discSeen, redial>>

IdleCaller ==
    [pc |-> "idle", conn |-> 0, dq |-> 0, line |-> <<>>, ret |-> NoError, i |-> 0,
     format |-> <<>>, args |-> <<>>, after |-> "", kind |-> "", snap |-> <<>>]

NoSender ==
    [pc |-> "none", conn |-> 0, done |-> 0, q |-> 0, data |-> <<>>,
     tokens |-> 0, lastTick |-> 0, wake |-> 0, sent |-> 0, shut |-> FALSE]

NoHist ==
    [first |-> <<>>, ndisp |-> 0, cap |-> FALSE, joins |-> 0, sender |-> FALSE,
     recv |-> FALSE, ok |-> FALSE, disc |-> FALSE]

\* NewClient
Init ==
    /\ connected = FALSE
    /\ conn = 0 /\ reader = 0 /\ writer = 0 /\ doneChan = 0 /\ sendQueue = 0
    /\ transport = [s \in Sessions |-> "none"]
    /\ done = [s \in Sessions |-> "none"]
    /\ qstate = [s \in Sessions |-> "none"]
    /\ queue = [s \in Sessions |-> <<>>]
    /\ caller = [p \in Callers |-> IdleCaller]
    /\ sender = [s \in Sessions |-> NoSender]
    /\ producer = [pc |-> "idle", format |-> <<>>, args |-> <<>>]
    /\ callbacks = [k \in Kinds |-> <<>>]
    /\ fired = <<>>
    /\ clock = 0
    /\ panicked = ""
    /\ hist = [p \in Callers |-> NoHist]
    /\ discSeen = {}
    /\ redial = {}

RECURSIVE SumLen(_, _)
SumLen(f, S) ==
    IF S = {} THEN 0
    ELSE LET s == CHOOSE x \in S : TRUE IN Len(f[s]) + SumLen(f, S \ {s})

RECURSIVE SumSent(_)
SumSent(S) ==
    IF S = {} THEN 0
    ELSE LET s == CHOOSE x \in S : TRUE IN sender[s].sent + SumSent(S \ {s})

\* lines in the outbound queues and lines the running send loops have written
TotalLines == SumLen(queue, Sessions) + SumSent(Sessions)

(***************************************************************************)
(* Shared pieces: Disconnect, Connected, send, write, read.                *)
(***************************************************************************)
Running == panicked = ""

\* Client.Disconnect, under connectedMu: what it does to the flag and to the
\* shutdown signal. close() of a nil or of a closed channel panics.
DisconnectWith(clearFlag) ==
    IF connected
    THEN /\ connected' = (IF clearFlag THEN FALSE ELSE connected)
         /\ discSeen' = {p \in Callers : caller[p].pc \notin {"idle", "fail"}}
         /\ IF doneChan = 0
            THEN panicked' = "Disconnect: close of nil channel" /\ UNCHANGED done
            ELSE IF done[doneChan] = "closed"
            THEN panicked' = "Disconnect: close of closed channel" /\ UNCHANGED done
            ELSE done' = [done EXCEPT ![doneChan] = "closed"] /\ UNCHANGED panicked
    ELSE UNCHANGED <<connected, discSeen, done, panicked>>

\* a Disconnect that closes the signal and leaves the flag set
Disconnect_keepsFlag == DisconnectWith(FALSE)

Disconnect == DisconnectWith(TRUE)

\* Client.Connected
Connected == connected

\* a send to a queue without a capacity
Enqueue_noLimit(msg) ==
    IF sendQueue = 0
    THEN UNCHANGED <<queue, panicked>>
    ELSE IF qstate[sendQueue] = "closed"
    THEN panicked' = "send on closed channel" /\ UNCHANGED queue
    ELSE queue' = [queue EXCEPT ![sendQueue] = Append(@, msg)] /\ UNCHANGED panicked

\* the select of Client.send: a non-blocking send to c.sendQueue. A nil channel
\* is never ready and a full one is not ready (the default case drops the
\* line); a send to a closed channel panics.
Enqueue(msg) ==
    IF sendQueue = 0
    THEN UNCHANGED <<queue, panicked>>
    ELSE IF qstate[sendQueue] = "closed"
    THEN panicked' = "send on closed channel" /\ UNCHANGED queue
    ELSE IF Len(queue[sendQueue]) < sendBufferSize
    THEN queue' = [queue EXCEPT ![sendQueue] = Append(@, msg)] /\ UNCHANGED panicked
    ELSE UNCHANGED <<queue, panicked>>

\* Client.write can succeed while the transport behind c.writer is open
CanWrite == writer # 0 /\ transport[writer] = "open"

\* a read of c.reader can deliver a line while its transport is open
CanRead == reader # 0 /\ transport[reader] = "open"

\* the CTCP ACTION marker; "^A" stands for the byte 0x01
ActionMarker == <<"^A">> \o <<"A", "C", "T", "I", "O", "N">>

\* a switch whose PRIVMSG case does not look at the bits tag
Route_noBits(m) ==
    LET body == IF Len(m.Params) > 1 THEN m.Params[2] ELSE <<>>
        msgid == IF <<"m", "s", "g", "-", "i", "d">> \in DOMAIN m.Tags THEN m.Tags[<<"m", "s", "g", "-", "i", "d">>] ELSE <<>>
    IN  CASE m.Command = <<"P", "R", "I", "V", "M", "S", "G">> ->
                IF HasPrefix(body, ActionMarker) THEN "action" ELSE "chat"
          [] m.Command = <<"J", "O", "I", "N">> -> "join"
          [] m.Command = <<"P", "A", "R", "T">> -> "part"
          [] m.Command = <<"N", "O", "T", "I", "C", "E">> -> "notice"
          [] m.Command = <<"U", "S", "E", "R", "S", "T", "A", "T", "E">> -> "userstate"
          [] m.Command = <<"R", "O", "O", "M", "S", "T", "A", "T", "E">> -> "roomstate"
          [] m.Command = <<"U", "S", "E", "R", "N", "O", "T", "I", "C", "E">> ->
                IF msgid = <<"r", "e", "s", "u", "b">> THEN "resub"
                ELSE IF msgid = <<"s", "u", "b">> THEN "subscription"
                ELSE IF msgid = <<"s", "u", "b", "g", "i", "f", "t">> THEN "subgift"
                ELSE "none"
          [] m.Command = <<"W", "H", "I", "S", "P", "E", "R">> -> "whisper"
          [] m.Command = <<"P", "I", "N", "G">> -> "ping"
          [] OTHER -> "none"

\* the switch of doCallbacks: the listener kind, "ping", or "none"
Route(m) ==
    LET body == IF Len(m.Params) > 1 THEN m.Params[2] ELSE <<>>
        msgid == IF <<"m", "s", "g", "-", "i", "d">> \in DOMAIN m.Tags THEN m.Tags[<<"m", "s", "g", "-", "i", "d">>] ELSE <<>>
    IN  CASE m.Command = <<"P", "R", "I", "V", "M", "S", "G">> ->
                IF HasPrefix(body, ActionMarker) THEN "action"
                ELSE IF <<"b", "i", "t", "s">> \in DOMAIN m.Tags THEN "cheer"
                ELSE "chat"
          [] m.Command = <<"J", "O", "I", "N">> -> "join"
          [] m.Command = <<"P", "A", "R", "T">> -> "part"
          [] m.Command = <<"N", "O", "T", "I", "C", "E">> -> "notice"
          [] m.Command = <<"U", "S", "E", "R", "S", "T", "A", "T", "E">> -> "userstate"
          [] m.Command = <<"R", "O", "O", "M", "S", "T", "A", "T", "E">> -> "roomstate"
          [] m.Command = <<"U", "S", "E", "R", "N", "O", "T", "I", "C", "E">> ->
                IF msgid = <<"r", "e", "s", "u", "b">> THEN "resub"
                ELSE IF msgid = <<"s", "u", "b">> THEN "subscription"
                ELSE IF msgid = <<"s", "u", "b", "g", "i", "f", "t">> THEN "subgift"
                ELSE "none"
          [] m.Command = <<"W", "H", "I", "S", "P", "E", "R">> -> "whisper"
          [] m.Command = <<"P", "I", "N", "G">> -> "ping"
          [] OTHER -> "none"

\* the parameters a do<Kind>Callbacks loop indexes without a length check
NeedParams(kind) ==
    CASE kind \in {"cheer", "chat", "action", "whisper"} -> 2
      [] kind = "notice" -> 0
      [] OTHER -> 1

\* the arguments a listener of the kind is called with
ListenerArgs(kind, m) ==
    LET body == IF Len(m.Params) > 1 THEN m.Params[2] ELSE <<>>
    IN  CASE kind = "notice" -> <<body>>
          [] kind \in {"userstate", "roomstate"} -> <<m.Params[1], m.Tags>>
          [] kind \in {"join", "part"} -> <<m.Params[1], m.Nick>>
          [] kind = "whisper" -> <<m.Nick, m.Tags, m.Params[2]>>
          [] kind = "action" -> <<m.Params[1], m.Tags, From(m.Params[2], 7)>>
          [] OTHER -> <<m.Params[1], m.Tags, body>>

\* the environment delivers a line only while the model's logs have room for
\* what dispatching it adds
CanDeliver(line) ==
    LET k == Route(NewMessage(line))
    IN  IF k = "ping" THEN TotalLines < MaxLines
        ELSE IF k \in Kinds THEN Len(fired) + Len(callbacks[k]) <= MaxFired
        ELSE TRUE

(***************************************************************************)
(* Connect.                                                                *)
(***************************************************************************)
SetCaller(p, r) == caller' = [caller EXCEPT ![p] = r]

\* Connect and doConnect (connectedMu held from the check to the return):
\* AlreadyConnected, or the dial fails, or it succeeds and the flag is set
doConnectWith(p, checkFlag) ==
    /\ Running
    /\ caller[p].pc = "idle"
    /\ \/ /\ checkFlag /\ connected
          /\ SetCaller(p, [IdleCaller EXCEPT !.pc = "fail", !.ret = ErrAlreadyConnected])
          /\ UNCHANGED <<hist, clientVars, objVars, sender, producer, regVars, clock,
                         panicked, discSeen, redial>>
       \/ /\ ~(checkFlag /\ connected)
          /\ SetCaller(p, [IdleCaller EXCEPT !.pc = "fail", !.ret = ErrDial])
          /\ UNCHANGED <<hist, clientVars, objVars, sender, producer, regVars, clock,
                         panicked, discSeen, redial>>
       \/ /\ ~(checkFlag /\ connected)
          /\ \E t \in Sessions :
                /\ transport[t] = "none"
                /\ \A u \in Sessions : u < t => transport[u] # "none"
                /\ transport' = [transport EXCEPT ![t] = "open"]
                /\ SetCaller(p, [IdleCaller EXCEPT !.pc = "post115", !.conn = t])
          /\ connected' = TRUE
          /\ redial' = {q \in Callers \ {p} : caller[q].pc = "ret"}
          /\ UNCHANGED <<hist, discSeen, conn, reader, writer, doneChan, sendQueue, done, qstate,
                         queue, sender, producer, regVars, clock, panicked>>

\* Connect, lines 73-75: the error of doConnect is returned
Connect_return(p) ==
    /\ Running
    /\ caller[p].pc = "fail"
    /\ SetCaller(p, IdleCaller)
    /\ UNCHANGED <<clientVars, objVars, sender, producer, regVars, clock, panicked,
                   ghostVars>>

\* a doConnect without the check of line 84
doConnect_noCheck(p) == doConnectWith(p, FALSE)

doConnect(p) == doConnectWith(p, TRUE)

\* doPostConnect, lines 115-117: c.conn, c.reader, c.writer
doPostConnect_conn(p) ==
    /\ Running
    /\ caller[p].pc = "post115"
    /\ conn' = caller[p].conn /\ reader' = caller[p].conn /\ writer' = caller[p].conn
    /\ SetCaller(p, [caller[p] EXCEPT !.pc = "post118"])
    /\ UNCHANGED <<connected, doneChan, sendQueue, objVars, sender, producer, regVars,
                   clock, panicked, ghostVars>>

\* doPostConnect, line 118: c.doneChan = make(chan struct{})
doPostConnect_done(p) ==
    /\ Running
    /\ caller[p].pc = "post118"
    /\ doneChan' = caller[p].conn
    /\ done' = [done EXCEPT ![caller[p].conn] = "open"]
    /\ SetCaller(p, [caller[p] EXCEPT !.pc = "post119"])
    /\ UNCHANGED <<connected, conn, reader, writer, sendQueue, transport, qstate, queue,
                   sender, producer, regVars, clock, panicked, ghostVars>>

\* doPostConnect, line 119: c.sendQueue = make(chan string, sendBufferSize)
doPostConnect_queue(p) ==
    /\ Running
    /\ caller[p].pc = "post119"
    /\ sendQueue' = caller[p].conn
    /\ qstate' = [qstate EXCEPT ![caller[p].conn] = "open"]
    /\ SetCaller(p, [caller[p] EXCEPT !.pc = "post120"])
    /\ UNCHANGED <<connected, conn, reader, writer, doneChan, transport, done, queue,
                   sender, producer, regVars, clock, panicked, ghostVars>>

\* doPostConnect, line 120: defer close(c.sendQueue) evaluates c.sendQueue now
doPostConnect_defer(p) ==
    /\ Running
    /\ caller[p].pc = "post120"
    /\ SetCaller(p, [caller[p] EXCEPT !.pc = "auth_write", !.dq = sendQueue])
    /\ UNCHANGED <<clientVars, objVars, sender, producer, regVars, clock, panicked,
                   ghostVars>>

PassNick == Sprintf(<<"P", "A", "S", "S", " ", "%", "s", "\r", "\n", "N", "I", "C", "K", " ", "%", "s", "\r", "\n">>, <<Pass, Nick>>)

\* strings.Join
RECURSIVE Join_(_, _)
Join_(elems, sep) ==
    IF elems = <<>> THEN <<>>
    ELSE IF Len(elems) = 1 THEN elems[1]
    ELSE elems[1] \o sep \o Join_(Tail(elems), sep)

CapReq == Sprintf(<<"C", "A", "P", " ", "R", "E", "Q", " ", ":", "%", "s", "\r", "\n">>, <<Join_(caps, <<" ", "t", "w", "i", "t", "c", "h", ".", "t", "v", "/">>)>>)

\* authenticate, line 248: write PASS and NICK
authenticate_write(p) ==
    /\ Running
    /\ caller[p].pc = "auth_write"
    /\ \/ /\ CanWrite
          /\ SetCaller(p, [caller[p] EXCEPT !.pc = "auth_read"])
       \/ /\ SetCaller(p, [caller[p] EXCEPT !.pc = "ret", !.ret = ErrWrite])
    /\ UNCHANGED <<clientVars, transport, done, qstate, queue, sender, producer,
                   regVars, clock, panicked, ghostVars>>

\* authenticate, lines 252-262: read one line; a command other than "001" sends
\* the line to doCallbacks, and authenticate then fails
authenticate_readWith(p, line, welcome) ==
    /\ Running
    /\ caller[p].pc = "auth_read"
    /\ CanRead
    /\ CanDeliver(line)
    /\ IF NewMessage(line).Command # welcome
       THEN /\ SetCaller(p, [caller[p] EXCEPT !.pc = "dispatch", !.line = line,
                               !.after = "auth_fail"])
            /\ hist' = [hist EXCEPT ![p].first = line]
       ELSE /\ SetCaller(p, [caller[p] EXCEPT !.pc = "auth_cap", !.line = line])
            /\ hist' = [hist EXCEPT ![p].first = line]
    /\ UNCHANGED <<clientVars, objVars, sender, producer, regVars, clock, panicked,
                   discSeen, redial>>

authenticate_read(p, line) == authenticate_readWith(p, line, <<"0", "0", "1">>)

\* authenticate, lines 252-255: the read fails
authenticate_readError(p) ==
    /\ Running
    /\ caller[p].pc = "auth_read"
    /\ SetCaller(p, [caller[p] EXCEPT !.pc = "ret", !.ret = ErrRead])
    /\ UNCHANGED <<clientVars, objVars, sender, producer, regVars, clock, panicked,
                   ghostVars>>

\* authenticate, line 261: the error that carries the raw line
authenticate_failWith(p, toCap) ==
    /\ Running
    /\ caller[p].pc = "auth_fail"
    /\ IF toCap
       THEN SetCaller(p, [caller[p] EXCEPT !.pc = "auth_cap"])
       ELSE SetCaller(p, [caller[p] EXCEPT !.pc = "ret",
                             !.ret = Sprintf(<<"U", "n", "e", "x", "p", "e", "c", "t", "e", "d", " ", "s", "e", "r", "v", "e", "r", " ", "r", "e", "s", "p", "o", "n", "s", "e", ":", " ", "%", "s">>,
                                             <<caller[p].line>>)])
    /\ UNCHANGED <<clientVars, objVars, sender, producer, regVars, clock, panicked,
                   ghostVars>>

\* an authenticate that goes on to the capability request after the dispatch
authenticate_fail_goesOn(p) == authenticate_failWith(p, TRUE)

authenticate_fail(p) == authenticate_failWith(p, FALSE)

\* authenticate, lines 264-269: the capability request
authenticate_cap(p) ==
    /\ Running
    /\ caller[p].pc = "auth_cap"
    /\ \/ /\ CanWrite
          /\ SetCaller(p, [caller[p] EXCEPT !.pc = "joins", !.i = 1])
          /\ hist' = [hist EXCEPT ![p].cap = TRUE, ![p].ok = TRUE]
       \/ /\ SetCaller(p, [caller[p] EXCEPT !.pc = "ret", !.ret = ErrWrite])
          /\ UNCHANGED hist
    /\ UNCHANGED <<clientVars, transport, done, qstate, queue, sender, producer,
                   regVars, clock, panicked, discSeen, redial>>

\* a Join that sends the channel name as given
JoinArgs_asGiven(channel) == <<<<"J", "O", "I", "N", " ", "%", "s">>, <<channel>>>>

\* Client.Join and Client.Part: the arguments they give to send
JoinArgs(channel) ==
    <<<<"J", "O", "I", "N", " ", "%", "s">>, <<IF ~HasPrefix(channel, <<"#">>) THEN <<"#">> \o channel ELSE channel>>>>
PartArgs(channel) ==
    <<<<"P", "A", "R", "T", " ", "%", "s">>, <<IF ~HasPrefix(channel, <<"#">>) THEN <<"#">> \o channel ELSE channel>>>>
\* Client.Say: the line is formatted here and given to send as its format
SayArgs(channel, msg) ==
    <<Sprintf(<<"P", "R", "I", "V", "M", "S", "G", " ", "%", "s", " ", ":", "%", "s">>,
              <<IF channel[1] # "#" THEN <<"#">> \o channel ELSE channel, msg>>), <<>>>>
\* Client.Whisper
WhisperArgs(user, msg) == SayArgs(<<"#", "j", "t", "v">>, <<"/", "w", " ">> \o user \o <<" ">> \o msg)

\* doPostConnect, lines 126-128: Join every channel of the options
doPostConnect_joins(p) ==
    /\ Running
    /\ caller[p].pc = "joins"
    /\ IF caller[p].i > Len(Channels)
       THEN /\ SetCaller(p, [caller[p] EXCEPT !.pc = "go", !.i = 0])
            /\ UNCHANGED hist
       ELSE /\ SetCaller(p, [caller[p] EXCEPT !.pc = "send_check", !.i = @ + 1,
                               !.format = JoinArgs(Channels[caller[p].i])[1],
                               !.args = JoinArgs(Channels[caller[p].i])[2],
                               !.after = "joins"])
            /\ hist' = [hist EXCEPT ![p].joins = @ + 1]
    /\ UNCHANGED <<clientVars, objVars, sender, producer, regVars, clock, panicked,
                   discSeen, redial>>

\* doPostConnect, line 130: go c.startSendLoop(maxMessages, perSeconds)
doPostConnect_go(p) ==
    /\ Running
    /\ caller[p].pc = "go"
    /\ sender' = [sender EXCEPT ![caller[p].conn] = [NoSender EXCEPT !.pc = "start"]]
    /\ SetCaller(p, [caller[p] EXCEPT !.pc = "recv"])
    /\ hist' = [hist EXCEPT ![p].sender = TRUE, ![p].recv = TRUE]
    /\ UNCHANGED <<clientVars, objVars, producer, regVars, clock, panicked, discSeen,
                   redial>>

(***************************************************************************)
(* send, as run by a goroutine inside Connect (Join at start-up, the PING  *)
(* reply), and the dispatcher.                                             *)
(***************************************************************************)
\* a send without the check of line 273
SendProceeds_always == TRUE

\* send, line 273: the line goes on only if Connected()
SendProceeds == Connected

\* where a goroutine inside Connect continues after send or doCallbacks
Resume(p) == [caller[p] EXCEPT !.pc = caller[p].after, !.format = <<>>, !.args = <<>>,
                               !.after = "", !.kind = "", !.snap = <<>>]

\* send, lines 273-275
send_check(p) ==
    /\ Running
    /\ caller[p].pc = "send_check"
    /\ IF SendProceeds
       THEN SetCaller(p, [caller[p] EXCEPT !.pc = "send_enq"])
       ELSE SetCaller(p, Resume(p))
    /\ UNCHANGED <<clientVars, objVars, sender, producer, regVars, clock, panicked,
                   ghostVars>>

\* send, lines 277-282
send_enq(p) ==
    /\ Running
    /\ caller[p].pc = "send_enq"
    /\ Enqueue(Sprintf(caller[p].format, caller[p].args))
    /\ SetCaller(p, Resume(p))
    /\ UNCHANGED <<clientVars, transport, done, qstate, sender, producer, regVars,
                   clock, ghostVars>>

\* the line the PING case gives to send as its format
PongFormat(m) == Sprintf(<<"P", "O", "N", "G", " ", ":", "%", "s">>, <<m.Params[1]>>)

\* doCallbacks: parse, route, and take the snapshot of the listeners of the kind
doCallbacks(p) ==
    /\ Running
    /\ caller[p].pc = "dispatch"
    /\ LET m == NewMessage(caller[p].line)
           k == Route(m)
       IN  IF k = "ping"
           THEN IF Len(m.Params) = 0
                THEN panicked' = "index out of range" /\ UNCHANGED caller
                ELSE /\ SetCaller(p, [caller[p] EXCEPT !.pc = "send_check",
                                        !.format = PongFormat(m), !.args = <<>>])
                     /\ UNCHANGED panicked
           ELSE IF k \in Kinds /\ callbacks[k] # <<>>
           THEN /\ SetCaller(p, [caller[p] EXCEPT !.pc = "invoke", !.kind = k,
                                   !.snap = callbacks[k]])
                /\ UNCHANGED panicked
           ELSE SetCaller(p, Resume(p)) /\ UNCHANGED panicked
    /\ hist' = [hist EXCEPT ![p].ndisp = IF caller[p].after = "auth_fail" THEN @ + 1 ELSE @]
    /\ UNCHANGED <<clientVars, objVars, sender, producer, regVars, clock, discSeen,
                   redial>>

\* the listeners still to call after the head of snap: the rest of the
\* snapshot, or (live) what follows the head in the list as it is now
RestOf(snap, list, live) ==
    IF live
    THEN LET pos == CHOOSE i \in 1..Len(list) : list[i] = Head(snap)
         IN  SubSeq(list, pos + 1, Len(list))
    ELSE Tail(snap)

\* the loop of do<Kind>Callbacks: one listener of the snapshot is called
invokeWith(p, live) ==
    /\ Running
    /\ caller[p].pc = "invoke"
    /\ LET m == NewMessage(caller[p].line)
           k == caller[p].kind
           rest == RestOf(caller[p].snap, callbacks[k], live)
       IN  IF Len(m.Params) < NeedParams(k)
           THEN panicked' = "index out of range" /\ UNCHANGED <<caller, fired>>
           ELSE /\ fired' = Append(fired, <<k, Head(caller[p].snap), ListenerArgs(k, m)>>)
                /\ IF rest = <<>>
                   THEN SetCaller(p, Resume(p))
                   ELSE SetCaller(p, [caller[p] EXCEPT !.snap = rest])
                /\ UNCHANGED panicked
    /\ UNCHANGED <<clientVars, objVars, sender, producer, callbacks, clock, ghostVars>>

\* a loop that ranges over the registered list itself, not over a snapshot
invoke_liveList(p) == invokeWith(p, TRUE)

invoke(p) == invokeWith(p, FALSE)

(***************************************************************************)
(* The receive loop and the return of Connect.                             *)
(***************************************************************************)
\* startRecvLoop, lines 346-353: a read delivers a line; the loop is back at
\* its read when doCallbacks has returned (or, not waiting, also while the
\* listeners of the line before are being called)
startRecvLoop_readWith(p, line, waits) ==
    /\ Running
    /\ caller[p].pc \in (IF waits THEN {"recv"} ELSE {"recv", "invoke"})
    /\ CanRead
    /\ CanDeliver(line)
    /\ SetCaller(p, [caller[p] EXCEPT !.pc = "dispatch", !.line = line, !.after = "recv"])
    /\ UNCHANGED <<clientVars, objVars, sender, producer, regVars, clock, panicked,
                   ghostVars>>

\* a receive loop that reads on while the listeners are still being called
startRecvLoop_read_noWait(p, line) == startRecvLoop_readWith(p, line, FALSE)

startRecvLoop_read(p, line) == startRecvLoop_readWith(p, line, TRUE)

\* startRecvLoop, lines 347-348: the read fails
startRecvLoop_readError(p) ==
    /\ Running
    /\ caller[p].pc = "recv"
    /\ SetCaller(p, [caller[p] EXCEPT !.pc = "recv_disc", !.ret = ErrRead])
    /\ UNCHANGED <<clientVars, objVars, sender, producer, regVars, clock, panicked,
                   ghostVars>>

\* startRecvLoop, lines 349-350: Disconnect, then return the error
startRecvLoop_disconnectWith(p, callsDisconnect) ==
    /\ Running
    /\ caller[p].pc = "recv_disc"
    /\ IF callsDisconnect
       THEN Disconnect /\ hist' = [hist EXCEPT ![p].disc = TRUE]
       ELSE UNCHANGED <<connected, discSeen, done, panicked, hist>>
    /\ redial' = redial \ {p}
    /\ SetCaller(p, [caller[p] EXCEPT !.pc = "ret"])
    /\ UNCHANGED <<conn, reader, writer, doneChan, sendQueue, transport, qstate, queue,
                   sender, producer, regVars, clock>>

\* a receive loop that returns the read error without Disconnect
startRecvLoop_noDisconnect(p) == startRecvLoop_disconnectWith(p, FALSE)

startRecvLoop_disconnect(p) == startRecvLoop_disconnectWith(p, TRUE)

\* the return of doPostConnect and of Connect: the deferred close(c.sendQueue)
doPostConnect_return(p) ==
    /\ Running
    /\ caller[p].pc = "ret"
    /\ IF caller[p].dq = 0
       THEN panicked' = "close of nil channel" /\ UNCHANGED <<qstate, caller, ghostVars>>
       ELSE IF qstate[caller[p].dq] = "closed"
       THEN panicked' = "close of closed channel" /\ UNCHANGED <<qstate, caller, ghostVars>>
       ELSE /\ qstate' = [qstate EXCEPT ![caller[p].dq] = "closed"]
            /\ SetCaller(p, IdleCaller)
            /\ hist' = [hist EXCEPT ![p] = NoHist]
            /\ discSeen' = discSeen \ {p}
            /\ redial' = redial \ {p}
            /\ UNCHANGED panicked
    /\ UNCHANGED <<clientVars, transport, done, queue, sender, producer, regVars,
                   clock>>

(***************************************************************************)
(* The send loop.                                                          *)
(***************************************************************************)
SetSender(s, r) == sender' = [sender EXCEPT ![s] = r]

\* startSendLoop, lines 308-310: defer c.conn.Close() evaluates c.conn now
startSendLoop_start(s) ==
    /\ Running
    /\ sender[s].pc = "start"
    /\ SetSender(s, [sender[s] EXCEPT !.pc = "sel_done", !.conn = conn,
                                      !.tokens = FullBucket, !.lastTick = clock])
    /\ UNCHANGED <<clientVars, objVars, caller, producer, regVars, clock, panicked,
                   ghostVars>>

\* the select of line 313 evaluates c.doneChan, then c.sendQueue, then waits
startSendLoop_selectDone(s) ==
    /\ Running
    /\ sender[s].pc = "sel_done"
    /\ SetSender(s, [sender[s] EXCEPT !.pc = "sel_queue", !.done = doneChan,
                                      !.shut = (doneChan # 0 /\ done[doneChan] = "closed")])
    /\ UNCHANGED <<clientVars, objVars, caller, producer, regVars, clock, panicked,
                   ghostVars>>

startSendLoop_selectQueue(s) ==
    /\ Running
    /\ sender[s].pc = "sel_queue"
    /\ SetSender(s, [sender[s] EXCEPT !.pc = "wait", !.q = sendQueue])
    /\ UNCHANGED <<clientVars, objVars, caller, producer, regVars, clock, panicked,
                   ghostVars>>

\* the deferred c.conn.Close()
CloseConn(s) ==
    transport' = [transport EXCEPT ![sender[s].conn] = "closed"]

\* case <-c.doneChan: return
startSendLoop_done(s) ==
    /\ Running
    /\ sender[s].pc = "wait"
    /\ done[sender[s].done] = "closed"
    /\ CloseConn(s)
    /\ SetSender(s, [NoSender EXCEPT !.pc = "dead"])
    /\ UNCHANGED <<clientVars, done, qstate, queue, caller, producer, regVars,
                   clock, panicked, ghostVars>>

\* lines 321-331: the refill, the clamp, and the sleep a deficit asks for
Refill(tokens, elapsed) == Min(tokens + elapsed * maxMessages, FullBucket)

\* a send loop that never sleeps
SleepFor_none(tokens) == 0

SleepFor(tokens) == IF tokens < OneToken THEN (OneToken - tokens) \div perSeconds ELSE 0

\* case data := <-c.sendQueue, lines 316-331; a closed and empty channel yields
\* the empty string
startSendLoop_take(s) ==
    /\ Running
    /\ sender[s].pc = "wait"
    /\ sender[s].q # 0
    /\ LET q == sender[s].q
           got == IF queue[q] # <<>> THEN Head(queue[q]) ELSE <<>>
           data == IF ~HasSuffix(got, CRLF) THEN got \o CRLF ELSE got
           tokens == Refill(sender[s].tokens, clock - sender[s].lastTick)
       IN  /\ \/ queue[q] # <<>>
              \/ qstate[q] = "closed" /\ TotalLines < MaxLines
           /\ queue' = [queue EXCEPT ![q] = IF @ # <<>> THEN Tail(@) ELSE @]
           /\ SetSender(s, [sender[s] EXCEPT
                               !.pc = IF SleepFor(tokens) > 0 THEN "sleep" ELSE "write",
                               !.data = data, !.tokens = tokens, !.lastTick = clock,
                               !.shut = FALSE,
                               !.wake = clock + SleepFor(tokens)])
    /\ UNCHANGED <<clientVars, transport, done, qstate, caller, producer, regVars,
                   clock, panicked, ghostVars>>

\* time.Sleep returns once the duration has passed
startSendLoop_wake(s) ==
    /\ Running
    /\ sender[s].pc = "sleep"
    /\ clock >= sender[s].wake
    /\ SetSender(s, [sender[s] EXCEPT !.pc = "write"])
    /\ UNCHANGED <<clientVars, objVars, caller, producer, regVars, clock, panicked,
                   ghostVars>>

\* lines 333-339: the write; an error leads to Disconnect
startSendLoop_write(s) ==
    /\ Running
    /\ sender[s].pc = "write"
    /\ \/ /\ CanWrite
          /\ SetSender(s, [sender[s] EXCEPT !.pc = "sel_done", !.data = <<>>,
                                            !.tokens = @ - OneToken, !.wake = 0,
                                            !.sent = @ + 1])
       \/ /\ SetSender(s, [sender[s] EXCEPT !.pc = "wdisc", !.data = <<>>])
    /\ UNCHANGED <<clientVars, transport, done, qstate, queue, caller, producer, regVars,
                   clock, panicked, ghostVars>>

\* line 335: c.Disconnect()
startSendLoop_disconnect(s) ==
    /\ Running
    /\ sender[s].pc = "wdisc"
    /\ Disconnect
    /\ SetSender(s, [sender[s] EXCEPT !.pc = "exit"])
    /\ UNCHANGED <<conn, reader, writer, doneChan, sendQueue, transport, qstate, queue,
                   caller, producer, regVars, clock, hist, redial>>

\* line 336: return, and the deferred c.conn.Close()
startSendLoop_return(s) ==
    /\ Running
    /\ sender[s].pc = "exit"
    /\ CloseConn(s)
    /\ SetSender(s, [NoSender EXCEPT !.pc = "dead"])
    /\ UNCHANGED <<clientVars, done, qstate, queue, caller, producer, regVars,
                   clock, panicked, ghostVars>>

(***************************************************************************)
(* The callers of the public operations.                                   *)
(***************************************************************************)
\* a call of Disconnect from outside the loops
CallDisconnect ==
    /\ Running
    /\ Disconnect
    /\ UNCHANGED <<conn, reader, writer, doneChan, sendQueue, transport, qstate, queue,
                   caller, sender, producer, regVars, clock, hist, redial>>

\* a producer enters send with the format and the arguments fa
Send(fa) ==
    /\ Running
    /\ producer.pc = "idle"
    /\ IF SendProceeds
       THEN producer' = [pc |-> "enq", format |-> fa[1], args |-> fa[2]]
       ELSE UNCHANGED producer
    /\ UNCHANGED <<clientVars, objVars, caller, sender, regVars, clock, panicked,
                   ghostVars>>

Say(channel, msg) == Send(SayArgs(channel, msg))
Whisper(user, msg) == Send(WhisperArgs(user, msg))
Join(channel) == Send(JoinArgs(channel))
Part(channel) == Send(PartArgs(channel))

\* the producer's send, lines 277-282
SendEnqueue ==
    /\ Running
    /\ producer.pc = "enq"
    /\ Enqueue(Sprintf(producer.format, producer.args))
    /\ producer' = [pc |-> "idle", format |-> <<>>, args |-> <<>>]
    /\ UNCHANGED <<clientVars, transport, done, qstate, caller, sender, regVars,
                   clock, ghostVars>>

\* On<Kind>: append a listener, under callbackMu
On(kind) ==
    /\ Running
    /\ SumLen(callbacks, Kinds) < MaxListeners
    /\ callbacks' = [callbacks EXCEPT ![kind] = Append(@, SumLen(callbacks, Kinds) + 1)]
    /\ UNCHANGED <<clientVars, objVars, caller, sender, producer, fired, clock, panicked,
                   ghostVars>>

\* time passes
Tick ==
    /\ Running
    /\ clock + Second <= MaxClock * Second
    /\ clock' = clock + Second
    /\ UNCHANGED <<clientVars, objVars, caller, sender, producer, regVars, panicked,
                   ghostVars>>

\* inputs of the producers
ChannelNames == {<<"c">>, <<"#", "c">>}
Texts == {<<"m">>}
Users == {<<"u">>}
\* the kinds the lines of InLines are routed to
RegKinds == {"notice"}

\* the steps of a goroutine inside Connect up to and in the receive loop that
\* read no line
StartStep(p) ==
    \/ doConnect(p)
    \/ Connect_return(p)
    \/ doPostConnect_conn(p)
    \/ doPostConnect_done(p)
    \/ doPostConnect_queue(p)
    \/ doPostConnect_defer(p)
    \/ authenticate_write(p)
    \/ authenticate_cap(p)
    \/ doPostConnect_joins(p)
    \/ doPostConnect_go(p)
    \/ send_check(p)
    \/ send_enq(p)

\* the steps that end a Connect call after the dial
EndStep(p) ==
    \/ authenticate_readError(p)
    \/ authenticate_fail(p)
    \/ startRecvLoop_readError(p)
    \/ startRecvLoop_disconnect(p)
    \/ doPostConnect_return(p)

CallerStep(p) == StartStep(p) \/ doCallbacks(p) \/ EndStep(p)

\* the steps of a send loop
SenderStep(s) ==
    \/ startSendLoop_start(s)
    \/ startSendLoop_selectDone(s)
    \/ startSendLoop_selectQueue(s)
    \/ startSendLoop_done(s)
    \/ startSendLoop_take(s)
    \/ startSendLoop_write(s)
    \/ startSendLoop_disconnect(s)
    \/ startSendLoop_return(s)

\* the steps of a send loop whose done signal nobody else closes
RateStep(s) ==
    \/ startSendLoop_start(s)
    \/ startSendLoop_selectDone(s)
    \/ startSendLoop_selectQueue(s)
    \/ startSendLoop_take(s)
    \/ startSendLoop_wake(s)
    \/ startSendLoop_write(s)
    \/ startSendLoop_disconnect(s)
    \/ startSendLoop_return(s)

\* the model's logs have room for one more outbound line
Room == TotalLines < MaxLines

(***************************************************************************)
(* Spec: the lifecycle. Two goroutines call Connect, any goroutine calls   *)
(* Disconnect, the server sends the welcome line or a NOTICE in answer to  *)
(* PASS and NICK, and lines no listener is registered for after that.      *)
(***************************************************************************)
Next ==
    \/ \E p \in Callers :
          \/ CallerStep(p)
          \/ \E line \in {Line001, LineNotice} : authenticate_read(p, line)
          \/ startRecvLoop_read(p, Line001)
    \/ \E s \in Sessions : SenderStep(s)
    \/ CallDisconnect

Spec == Init /\ [][Next]_vars

(***************************************************************************)
(* SpecSend: one goroutine calls Connect; other goroutines call            *)
(* Disconnect, Say, Whisper, Join and Part; the server sends the welcome   *)
(* line and PING.                                                          *)
(***************************************************************************)
NextSend ==
    \/ CallerStep(1)
    \/ \E line \in {Line001, LinePing} : authenticate_read(1, line)
    \/ \E line \in {Line001, LinePing} : startRecvLoop_read(1, line)
    \/ \E s \in Sessions : SenderStep(s)
    \/ CallDisconnect
    \/ Room /\ \E ch \in ChannelNames, m \in Texts : Say(ch, m)
    \/ Room /\ \E u \in Users, m \in Texts : Whisper(u, m)
    \/ Room /\ \E ch \in ChannelNames : Join(ch)
    \/ Room /\ \E ch \in ChannelNames : Part(ch)
    \/ SendEnqueue

SpecSend == Init /\ [][NextSend]_vars

(***************************************************************************)
(* SpecDispatch: one goroutine calls Connect; other goroutines call        *)
(* Disconnect and On<Kind>; the server sends the welcome line, PING and    *)
(* NOTICE.                                                                 *)
(***************************************************************************)
NextDispatch ==
    \/ CallerStep(1)
    \/ invoke(1)
    \/ \E line \in InLines : authenticate_read(1, line)
    \/ \E line \in InLines : startRecvLoop_read(1, line)
    \/ \E s \in Sessions : SenderStep(s)
    \/ CallDisconnect
    \/ \E k \in RegKinds : On(k)

SpecDispatch == Init /\ [][NextDispatch]_vars

(***************************************************************************)
(* SpecQueue: one session whose reads do not fail; a goroutine calls Join  *)
(* as often as it likes; the send loop writes at most MaxLines lines.      *)
(***************************************************************************)
NextQueue ==
    \/ StartStep(1)
    \/ authenticate_read(1, Line001)
    \/ \E s \in Sessions : SumSent(Sessions) < MaxLines /\ SenderStep(s)
    \/ Join(<<"c">>)
    \/ SendEnqueue

SpecQueue == Init /\ [][NextQueue]_vars

(***************************************************************************)
(* SpecRate: one session whose reads do not fail; a goroutine calls Join;   *)
(* time passes in steps of a second.                                       *)
(***************************************************************************)
NextRate ==
    \/ StartStep(1)
    \/ authenticate_read(1, Line001)
    \/ \E s \in Sessions : RateStep(s)
    \/ TotalLines < MaxRateLines /\ Join(<<"c">>)
    \/ SendEnqueue
    \/ Tick

SpecRate == Init /\ [][NextRate]_vars

(***************************************************************************)
(* SpecRoute: one session that stays up; other goroutines call On<Kind>;   *)
(* the server sends lines of every command of the routing table and one    *)
(* outside it.                                                             *)
(***************************************************************************)
\* lines the server sends in SpecRoute
LineAction == <<"@", "b", "i", "t", "s", "=", "1", " ", ":", "u", "!", "u", "@", "h", " ", "P", "R", "I", "V", "M", "S", "G", " ", "#", "f", "o", "o", " ", ":">> \o ActionMarker \o <<" ", "w", "a", "v", "e", "s">> \o <<"^A">> \o CRLF
LineChat == <<":", "u", "!", "u", "@", "h", " ", "P", "R", "I", "V", "M", "S", "G", " ", "#", "f", "o", "o", " ", ":", "h", "i", "\r", "\n">>
LineCheer == <<"@", "b", "i", "t", "s", "=", "1", " ", ":", "u", "!", "u", "@", "h", " ", "P", "R", "I", "V", "M", "S", "G", " ", "#", "f", "o", "o", " ", ":", "h", "i", "\r", "\n">>
LineResub == <<"@", "m", "s", "g", "-", "i", "d", "=", "r", "e", "s", "u", "b", " ", "U", "S", "E", "R", "N", "O", "T", "I", "C", "E", " ", "#", "f", "o", "o", " ", ":", "x", "\r", "\n">>
LineSub == <<"@", "m", "s", "g", "-", "i", "d", "=", "s", "u", "b", " ", "U", "S", "E", "R", "N", "O", "T", "I", "C", "E", " ", "#", "f", "o", "o", " ", ":", "x", "\r", "\n">>
LineSubGift == <<"@", "m", "s", "g", "-", "i", "d", "=", "s", "u", "b", "g", "i", "f", "t", " ", "U", "S", "E", "R", "N", "O", "T", "I", "C", "E", " ", "#", "f", "o", "o", " ", ":", "x", "\r", "\n">>
LineRaid == <<"@", "m", "s", "g", "-", "i", "d", "=", "r", "a", "i", "d", " ", "U", "S", "E", "R", "N", "O", "T", "I", "C", "E", " ", "#", "f", "o", "o", " ", ":", "x", "\r", "\n">>
LineMode == <<"M", "O", "D", "E", " ", "#", "f", "o", "o", " ", "+", "o", " ", "u", "\r", "\n">>
RouteLines == {LineAction, LineChat, LineCheer, LineResub, LineSub, LineSubGift,
               LineRaid, LineMode}
\* the kinds those lines can be routed to, and join, which none of them is
RouteKinds == {"action", "chat", "cheer", "resub", "subscription", "subgift", "join"}

NextRoute ==
    \/ StartStep(1)
    \/ doCallbacks(1)
    \/ invoke(1)
    \/ authenticate_read(1, Line001)
    \/ \E line \in RouteLines : startRecvLoop_read(1, line)
    \/ \E k \in RouteKinds : On(k)

SpecRoute == Init /\ [][NextRoute]_vars

(***************************************************************************)
(* SpecLive: one goroutine calls Connect, again after each return; any     *)
(* goroutine calls Disconnect; every goroutine that can take a step of its *)
(* own eventually takes one, a read of a closed transport fails, and the   *)
(* select of the send loop, which chooses at random among its ready cases, *)
(* does not avoid the shutdown signal forever. doCallbacks is enabled      *)
(* exactly when the goroutine is at its call, so its weak fairness is      *)
(* written as: the goroutine is not at that call forever.                  *)
(***************************************************************************)
\* the steps a goroutine inside Connect takes by itself, doCallbacks apart
ProgressStep(p) ==
    \/ Connect_return(p)
    \/ doPostConnect_conn(p)
    \/ doPostConnect_done(p)
    \/ doPostConnect_queue(p)
    \/ doPostConnect_defer(p)
    \/ authenticate_write(p)
    \/ authenticate_cap(p)
    \/ authenticate_fail(p)
    \/ doPostConnect_joins(p)
    \/ doPostConnect_go(p)
    \/ send_check(p)
    \/ send_enq(p)
    \/ startRecvLoop_disconnect(p)
    \/ doPostConnect_return(p)
    \/ ~CanRead /\ authenticate_readError(p)
    \/ ~CanRead /\ startRecvLoop_readError(p)

NextLive ==
    \/ CallerStep(1)
    \/ \E line \in {Line001, LineNotice} : authenticate_read(1, line)
    \/ startRecvLoop_read(1, Line001)
    \/ \E s \in Sessions : SenderStep(s)
    \/ CallDisconnect

SpecLive ==
    /\ Init /\ [][NextLive]_vars
    /\ WF_vars(ProgressStep(1))
    /\ []<>(~Running \/ caller[1].pc # "dispatch")
    /\ \A s \in Sessions : WF_vars(SenderStep(s)) /\ SF_vars(startSendLoop_done(s))

(***************************************************************************)
(* The claims.                                                             *)
(***************************************************************************)
\* a step in which some goroutine runs Disconnect
DisconnectStep ==
    \/ CallDisconnect
    \/ \E p \in Callers : startRecvLoop_disconnect(p)
    \/ \E s \in Sessions : startSendLoop_disconnect(s)

\* a step in which doConnect dials a transport and sets the flag
DialStep == \E p \in Callers : caller[p].pc = "idle" /\ caller'[p].pc = "post115"

\* C1: whatever the interleaving of Disconnect calls with Connect, no call of
\* Disconnect closes a shutdown signal that is not yet created or is already
\* closed.
C1_DisconnectNeverMiscloses ==
    panicked \notin {"Disconnect: close of nil channel",
                     "Disconnect: close of closed channel"}

\* C2: Connected() is false before any Connect has dialed; it is true from a
\* successful handshake until a Disconnect takes effect; every Disconnect
\* leaves it false, and only a Disconnect makes it false and only a dial of
\* Connect makes it true.
C2_ConnectedFollowsLifecycle ==
    /\ []((\A t \in Sessions : transport[t] = "none") => ~Connected)
    /\ [](\A p \in Callers : (hist[p].ok /\ p \notin discSeen) => Connected)
    /\ [][/\ DisconnectStep => ~Connected'
          /\ (Connected /\ ~Connected') => DisconnectStep
          /\ (~Connected /\ Connected') => DialStep]_vars

\* C2 witness: a handshake has succeeded, a Disconnect has since taken effect
\* and Connected() is false.
C2_Witness ==
    \E p \in Callers : hist[p].ok /\ p \in discSeen /\ ~Connected /\ Running

\* C3: a Connect call that finds the flag set returns AlreadyConnected and
\* changes neither the flag, the transport, reader, writer, signal or queue
\* fields, nor any transport, signal or queue, nor a send loop, nor another
\* goroutine inside Connect; no transport is dialed.
C3_AlreadyConnectedChangesNothing ==
    [][\A p \in Callers :
          (connected /\ caller[p].pc = "idle" /\ caller'[p].pc # "idle") =>
             /\ caller'[p] = [IdleCaller EXCEPT !.pc = "fail", !.ret = ErrAlreadyConnected]
             /\ UNCHANGED <<clientVars, objVars, sender>>
             /\ \A q \in Callers \ {p} : caller'[q] = caller[q]]_vars

\* C3 witness: one goroutine has got AlreadyConnected while the session of the
\* other is live, its receive loop and its send loop running.
C3_Witness ==
    \E p \in Callers, q \in Callers, s \in Sessions :
        /\ caller[p].pc = "fail" /\ caller[p].ret = ErrAlreadyConnected
        /\ caller[q].pc = "recv" /\ caller[q].conn = s
        /\ sender[s].pc = "wait" /\ transport[s] = "open"
        /\ connected

\* C4: at most one transport that has been dialed and not yet closed exists.
C4_AtMostOneOpenTransport ==
    Cardinality({t \in Sessions : transport[t] = "open"}) <= 1

\* a step in which the Connect call of p, whose handshake had succeeded, returns
ReturnsAfterHandshake(p) ==
    hist[p].ok /\ caller[p].pc = "ret" /\ caller'[p].pc = "idle"

\* C5 as stated: after a successful handshake Connect returns only after the
\* receive loop has ended on a read error and has called Disconnect, and the
\* connected flag is false when Connect returns.
C5_FlagFalseAtReturn ==
    [][\A p \in Callers :
          ReturnsAfterHandshake(p) =>
             /\ hist[p].recv /\ hist[p].disc /\ caller[p].ret = ErrRead
             /\ ~connected']_vars

\* C5 amended: after a successful handshake Connect returns only after the
\* receive loop has ended on a read error and has called Disconnect; the
\* connected flag is false when Connect returns unless another Connect call
\* has dialed since that Disconnect. A goroutine past the handshake and not at
\* its return is in the receive loop or in what the loop calls.
C5_ReturnsAfterReceiverDisconnect ==
    /\ [](\A p \in Callers :
             hist[p].ok =>
                caller[p].pc \in {"joins", "send_check", "send_enq", "go", "recv",
                                  "dispatch", "invoke", "recv_disc", "ret"})
    /\ [][\A p \in Callers :
             ReturnsAfterHandshake(p) =>
                /\ hist[p].recv /\ hist[p].disc /\ caller[p].ret = ErrRead
                /\ connected' => p \in redial]_vars

\* C5 witness: the receive loop has ended on a read error and has called
\* Disconnect, Connect is about to return the error and the flag is false.
C5_Witness ==
    \E p \in Callers :
        /\ hist[p].ok /\ hist[p].disc /\ caller[p].pc = "ret"
        /\ caller[p].ret = ErrRead /\ ~connected /\ Running

\* the command of the first line read by the handshake of p is not "001"
FirstNotWelcome(p) ==
    hist[p].first # <<>> /\ NewMessage(hist[p].first).Command # <<"0", "0", "1">>

\* C6: when the first line read after PASS/NICK has a command other than
\* "001", the raw line goes to doCallbacks exactly once and Connect then fails
\* with the error that carries the raw line; no capability request is written,
\* no JOIN of a configured channel is sent, and neither the send loop nor the
\* receive loop is started.
C6_HandshakeFailure ==
    \A p \in Callers :
        FirstNotWelcome(p) =>
           /\ caller[p].pc \in {"dispatch", "invoke", "send_check", "send_enq",
                                "auth_fail", "ret"}
           /\ hist[p].ndisp = (IF caller[p].pc = "dispatch" THEN 0 ELSE 1)
           /\ caller[p].pc = "ret" =>
                 caller[p].ret = <<"U", "n", "e", "x", "p", "e", "c", "t", "e", "d", " ", "s", "e", "r", "v", "e", "r", " ", "r", "e", "s", "p", "o", "n", "s", "e", ":", " ">> \o hist[p].first
           /\ ~hist[p].cap /\ hist[p].joins = 0
           /\ ~hist[p].sender /\ ~hist[p].recv
           /\ sender[caller[p].conn].pc = "none"

\* C6 witness: the first line was a NOTICE, it has been dispatched to a
\* listener, and Connect is about to return the error carrying it.
C6_Witness ==
    \E p \in Callers :
        /\ hist[p].first = LineNotice /\ caller[p].pc = "ret"
        /\ caller[p].ret = <<"U", "n", "e", "x", "p", "e", "c", "t", "e", "d", " ", "s", "e", "r", "v", "e", "r", " ", "r", "e", "s", "p", "o", "n", "s", "e", ":", " ">> \o LineNotice
        /\ hist[p].ndisp = 1 /\ Len(fired) = 1

\* C7: a send (of Say, Whisper, Join, Part or the PING reply) that finds
\* Connected() false goes no further, and a queue gets a line only from a
\* send that found Connected() true: such a call leaves every queue as it was.
C7_NoEnqueueWhileDisconnected ==
    [][/\ (~Connected /\ producer.pc = "idle") =>
             (producer'.pc = "idle" /\ (producer' # producer => queue' = queue))
       /\ \A p \in Callers :
             (~Connected /\ caller[p].pc = "send_check") =>
                (caller'[p].pc # "send_enq" /\ (caller'[p] # caller[p] => queue' = queue))
       /\ \A s \in Sessions :
             Len(queue'[s]) > Len(queue[s]) =>
                \/ producer.pc = "enq" /\ producer'.pc = "idle"
                \/ \E p \in Callers : caller[p].pc = "send_enq" /\ caller'[p].pc # "send_enq"]_vars

\* C7 witness: the Join of the configured channel was called after a
\* Disconnect, it has returned, and the queue of the session is still empty.
C7_Witness ==
    \E p \in Callers :
        /\ caller[p].pc = "joins" /\ caller[p].i = Len(Channels) + 1
        /\ ~Connected /\ p \in discSeen /\ Running
        /\ sendQueue = caller[p].conn /\ qstate[sendQueue] = "open"
        /\ queue[sendQueue] = <<>>

\* C8: a queue never holds more than 512 lines; a producer at its send is
\* never blocked; when the queue holds 512 lines the line is dropped and the
\* queue is unchanged, otherwise the line is appended at the tail.
C8_QueueBoundedNonBlocking ==
    /\ [](\A s \in Sessions : Len(queue[s]) <= sendBufferSize)
    /\ []((Running /\ producer.pc = "enq") => ENABLED SendEnqueue)
    /\ [][(producer.pc = "enq" /\ producer'.pc = "idle" /\ sendQueue # 0
           /\ qstate[sendQueue] = "open") =>
             /\ Running'
             /\ IF Len(queue[sendQueue]) = sendBufferSize
                THEN queue' = queue
                ELSE queue' = [queue EXCEPT ![sendQueue] =
                                  queue[sendQueue] \o <<<<"J", "O", "I", "N", " ", "#", "c">>>>]]_vars

\* C8 witness: the queue holds 512 lines and a producer is at its send.
C8_Witness ==
    /\ sendQueue # 0 /\ Len(queue[sendQueue]) = sendBufferSize
    /\ producer.pc = "enq" /\ Running

\* the send loop s takes a line from its queue
Takes(s) == sender[s].pc = "wait" /\ sender'[s].pc \in {"sleep", "write"}

\* C9: from a full bucket of 19 tokens and a window of 30 s, each of the first
\* 19 lines taken with no time passing goes to its write with no sleep; the
\* 20th is written only after a sleep of at least the deficit 1 - tokens in
\* seconds; no line goes to its write without a sleep when the refilled
\* tokens are below 1, and that sleep is the deficit in seconds cut to the
\* unit of the clock; the tokens never exceed 19.
C9_TokenBucket ==
    /\ [](\A s \in Sessions : sender[s].tokens <= maxMessages * OneToken)
    /\ [][\A s \in Sessions :
             /\ (Takes(s) /\ sender[s].tokens = (maxMessages - sender[s].sent) * OneToken
                 /\ sender[s].lastTick = clock /\ sender[s].sent < maxMessages) =>
                   sender'[s].pc = "write"
             /\ (Takes(s) /\ sender[s].tokens = 0 /\ sender[s].sent = maxMessages
                 /\ sender[s].lastTick = clock) =>
                   (sender'[s].pc = "sleep" /\ sender'[s].wake - clock = Second)
             /\ (Takes(s) /\ sender'[s].tokens < OneToken) =>
                   /\ sender'[s].pc = "sleep"
                   /\ (sender'[s].wake - clock) * perSeconds
                         > (OneToken - sender'[s].tokens) - perSeconds
             /\ (sender[s].pc = "sleep" /\ sender'[s].pc = "write") =>
                   clock >= sender[s].wake]_vars

\* C9 witness: 19 lines have been written with no time passing and the 20th
\* line, taken at the same instant, waits one second for its write.
C9_Witness ==
    \E s \in Sessions :
        /\ sender[s].pc = "sleep" /\ sender[s].sent = maxMessages
        /\ sender[s].tokens = 0 /\ sender[s].lastTick = 0
        /\ sender[s].wake = Second

\* C10: the PING reply that send puts on the queue is "PONG :" followed by
\* the payload of the PING.
C10_PongEchoesPayload ==
    \A p \in Callers :
        (caller[p].pc = "send_enq" /\ caller[p].after # "joins") =>
            Sprintf(caller[p].format, caller[p].args)
               = <<"P", "O", "N", "G", " ", ":">> \o NewMessage(caller[p].line).Params[1]

\* C11: a PRIVMSG whose body starts with the ACTION marker fires only action
\* listeners, even with a bits tag, and each gets the channel and the body
\* without the marker: for "^AACTION waves^A" on #foo, "#foo" and "waves".
C11_ActionListenerGetsText ==
    /\ \A p \in Callers :
          (caller[p].pc = "invoke" /\ caller[p].line = LineAction) =>
             caller[p].kind = "action"
    /\ \A i \in 1..Len(fired) :
          fired[i][1] = "action" =>
             /\ fired[i][3][1] = <<"#", "f", "o", "o">>
             /\ fired[i][3][3] = <<"w", "a", "v", "e", "s">>

\* the kind the routing table gives each line of RouteLines, "none" for a
\* line that fires nothing
TableKind(line) ==
    CASE line = LineAction -> "action"
      [] line = LineChat -> "chat"
      [] line = LineCheer -> "cheer"
      [] line = LineResub -> "resub"
      [] line = LineSub -> "subscription"
      [] line = LineSubGift -> "subgift"
      [] OTHER -> "none"

\* C12: a dispatched message fires the listeners of at most one kind, the one
\* of the routing table: cheer for a PRIVMSG with a bits tag and chat for one
\* without, resub, subscription or subgift for a USERNOTICE by its msg-id and
\* nothing for another msg-id; a line of a command outside the table fires no
\* listener and enqueues nothing.
C12_OneKindPerMessage ==
    [][\A p \in Callers :
          /\ (caller[p].pc = "dispatch" /\ caller'[p].pc # "dispatch"
              /\ caller[p].line \in RouteLines) =>
                /\ fired' = fired /\ queue' = queue
                /\ IF TableKind(caller[p].line) = "none"
                      \/ callbacks[TableKind(caller[p].line)] = <<>>
                   THEN caller'[p].pc = "recv"
                   ELSE /\ caller'[p].pc = "invoke"
                        /\ caller'[p].kind = TableKind(caller[p].line)
          /\ (caller[p].pc = "invoke" /\ caller[p].line \in RouteLines) =>
                /\ caller[p].kind = TableKind(caller[p].line)
                /\ fired' # fired =>
                      /\ Len(fired') = Len(fired) + 1
                      /\ SubSeq(fired', 1, Len(fired)) = fired
                      /\ fired'[Len(fired')][1] = TableKind(caller[p].line)
                      /\ caller'[p].pc \in {"invoke", "recv"}]_vars

\* C12 witness: a chat listener was registered, then a cheer listener; a
\* PRIVMSG with a bits tag has been dispatched and only the cheer listener
\* has fired.
C12_Witness ==
    /\ callbacks["chat"] = <<1>> /\ callbacks["cheer"] = <<2>>
    /\ Len(fired) = 1 /\ fired[1][1] = "cheer" /\ fired[1][2] = 2
    /\ caller[1].pc = "recv"

\* C13: after a handshake whose first response is "001", the capability
\* request written names twitch.tv/membership, twitch.tv/commands and
\* twitch.tv/tags, and it is written before any JOIN of a configured channel
\* is enqueued.
C13_CapabilityRequest ==
    \A p \in Callers :
        /\ hist[p].joins > 0 => hist[p].cap
        /\ hist[p].cap =>
              CapReq = <<"C", "A", "P", " ", "R", "E", "Q", " ", ":", "t", "w", "i", "t", "c", "h", ".", "t", "v", "/", "m", "e", "m", "b", "e", "r", "s", "h", "i", "p", " ", "t", "w", "i", "t", "c", "h", ".", "t", "v", "/", "c", "o", "m", "m", "a", "n", "d", "s", " ", "t", "w", "i", "t", "c", "h", ".", "t", "v", "/", "t", "a", "g", "s", "\r", "\n">>

\* the line the producer's send has formatted
ProducerLine(pr) == Sprintf(pr.format, pr.args)

DisconnectedSession(p, s) ==
    hist[p].ok /\ p \in discSeen /\ caller[p].conn = s

\* C15: in a session whose handshake succeeded, once a Disconnect has taken
\* effect the send loop eventually ends and closes the transport and the
\* blocked Connect call eventually returns (unless a panic has ended the
\* process); Connect returns the read error, never the write error.
C15_DisconnectEndsSession ==
    /\ \A p \in Callers, s \in Sessions :
          DisconnectedSession(p, s) ~>
              ((transport[s] = "closed" /\ sender[s].pc = "dead") \/ ~Running)
    /\ \A p \in Callers, s \in Sessions :
          DisconnectedSession(p, s) ~> (caller[p].conn # s \/ ~Running)
    /\ [](\A p \in Callers :
             (hist[p].ok /\ caller[p].pc = "ret") => caller[p].ret = ErrRead)

\* C16: a send loop whose iteration began with the shutdown signal closed
\* exits at once and takes no further line, whatever the queue holds; a send
\* loop ends only on the shutdown signal or after a write failure.
C16_ShutdownBeforeQueue ==
    [][\A s \in Sessions :
          /\ (sender[s].pc = "wait" /\ sender[s].shut /\ sender'[s] # sender[s]) =>
                sender'[s].pc = "dead"
          /\ (sender[s].pc # "dead" /\ sender'[s].pc = "dead") =>
                \/ sender[s].pc = "wait" /\ done[sender[s].done] = "closed"
                \/ sender[s].pc = "exit"]_vars

\* s is a prefix of t
IsPrefix(s, t) == Len(s) <= Len(t) /\ SubSeq(t, 1, Len(s)) = s

\* C17: a dispatch calls exactly the listeners of its kind registered when
\* it took its snapshot, so a listener registered while the dispatch is in
\* flight is not called for it, and a later dispatch calls it; On<Kind> is
\* never blocked, also while a listener runs, and the lists only grow.
C17_SnapshotDispatch ==
    /\ [][/\ \A p \in Callers :
               /\ (caller[p].pc = "dispatch" /\ caller'[p].pc = "invoke") =>
                     caller'[p].snap = callbacks[caller'[p].kind]
               /\ (caller[p].pc = "invoke" /\ fired' = fired /\ Running') =>
                     caller'[p] = caller[p]
               /\ (caller[p].pc = "invoke" /\ fired' # fired) =>
                     /\ fired' = Append(fired, fired'[Len(fired')])
                     /\ fired'[Len(fired')][2] = Head(caller[p].snap)
                     /\ IF Len(caller[p].snap) = 1
                        THEN caller'[p].pc = caller[p].after
                        ELSE /\ caller'[p].pc = "invoke"
                             /\ caller'[p].snap = Tail(caller[p].snap)
          /\ \A k \in Kinds : IsPrefix(callbacks[k], callbacks'[k])]_vars
    /\ []((Running /\ SumLen(callbacks, Kinds) < MaxListeners) =>
             \A k \in RouteKinds : ENABLED On(k))

\* C17 witness: a chat dispatch took its snapshot with one listener; a second
\* chat listener has been registered while the dispatch is in flight.
C17_Witness ==
    \E p \in Callers :
        /\ caller[p].pc = "invoke" /\ caller[p].kind = "chat"
        /\ caller[p].snap = <<1>> /\ callbacks["chat"] = <<1, 2>>

\* the entries i..j of the log of listener calls
FiredIds(i, j) == [n \in 1..(j - i + 1) |-> fired[i + n - 1][2]]

\* C18: the Receiver reads its next line only when the dispatch of the line
\* before has returned, every listener call is for the line read last, and
\* within one dispatch the listeners of the kind are called once each in the
\* order of their registration.
C18_InOrderOneAtATime ==
    /\ [][\A p \in Callers :
             /\ (caller'[p].pc = "dispatch" /\ caller'[p].after = "recv"
                   /\ caller'[p] # caller[p]) =>
                   /\ caller[p].pc = "recv"
                   /\ caller[p].snap = <<>>
             /\ (caller[p].pc = "invoke" /\ fired' # fired) =>
                   /\ caller[p].kind = Route(NewMessage(caller[p].line))
                   /\ fired' = Append(fired,
                                 <<caller[p].kind, Head(caller[p].snap),
                                   ListenerArgs(caller[p].kind, NewMessage(caller[p].line))>>)
                   /\ caller'[p].line = caller[p].line \/ caller'[p].pc = "recv"]_vars
    /\ [](\A p \in Callers : caller[p].pc = "invoke" =>
             LET list == callbacks[caller[p].kind]
                 snap == caller[p].snap
             IN  \E i \in 0..Len(list) :
                    /\ snap # <<>>
                    /\ i + Len(snap) <= Len(list)
                    /\ snap = SubSeq(list, i + 1, i + Len(snap))
                    /\ i <= Len(fired)
                    /\ FiredIds(Len(fired) - i + 1, Len(fired)) = SubSeq(list, 1, i))

\* C18 witness: the two listeners of one kind have been called for a line, the
\* first registered first, and the Receiver has read the next line.
C18_Witness ==
    /\ Len(fired) = 2
    /\ fired[1][1] = fired[2][1] /\ fired[1][3] = fired[2][3]
    /\ fired[1][2] = 1 /\ fired[2][2] = 2
    /\ caller[1].pc = "dispatch" /\ caller[1].after = "recv"

\* C19: whenever a producer that passed the Connected() check reaches the
\* select of send (Say, Whisper, Join, Part from any goroutine, or the PONG
\* reply and the start-up Join inside Connect), c.sendQueue is not closed.
C19_NoEnqueueOnClosedQueue ==
    [][((producer.pc = "enq" /\ producer'.pc # "enq")
          \/ \E p \in Callers : caller[p].pc = "send_enq" /\ caller'[p].pc # "send_enq") =>
          (sendQueue = 0 \/ qstate[sendQueue] # "closed")]_vars

\* the race of C19 alone: the flag was cleared, the queue closed by the
\* returning Connect, and the producer that had passed the check panicked
C19_RaceAfterCheck ==
    /\ panicked = "send on closed channel" /\ ~connected
    /\ sender[1].pc # "none" /\ transport[2] = "none"

\* C20: when a Connect call that passed the check of line 84 returns (after a
\* failed dial, a failed handshake or the end of the receive loop) and no
\* other Connect has started since, the connected flag is false. SpecSend has
\* one goroutine calling Connect, so no other Connect starts.
C20_FlagFalseWhenConnectReturns ==
    [][\A p \in Callers :
          (caller[p].pc \in {"fail", "ret"} /\ caller'[p].pc = "idle"
             /\ caller[p].ret # ErrAlreadyConnected) => ~connected']_vars

====
